---- MODULE Spec2Model ----
(***************************************************************************)
(* A model of the BigInt engine of src/src/lib.rs.                         *)
(*                                                                         *)
(* A BigInt is a Vec<u32>, most significant element first.  The model      *)
(* follows a session that holds one value (result) and one argument (rhs)  *)
(* and keeps applying an operation to the value held, as mod_by and mul    *)
(* themselves do (result = result.sub(modulo), result = result.add(..)):   *)
(*                                                                         *)
(*     prev_lhs --prev_op--> lhs --op--> result                            *)
(*                                                                         *)
(* The arithmetic operations hold u32 elements as integers: on elements    *)
(* in 0..15 no sum or product of the code exceeds 15 * 15 + 14, so no u32   *)
(* operation overflows there.  The shifts work on whole 32-bit words,      *)
(* which are held as the sets of their set bits (bit 0 the least           *)
(* significant): 15 is {0, 1, 2, 3}.                                       *)
(***************************************************************************)
EXTENDS Integers, Sequences, FiniteSets, TLC

VARIABLES
    result,     \* the value held: an input, or what the last call returned
    rhs,        \* the BigInt argument of the calls (int, modulo)
    bits,       \* the shift amount of the calls (bits, n)
    lhs,        \* the receiver (self) of the last call
    op,         \* the last call: "new", "add", "sub", "mul", "mod_by", "shift_l", "shift_r"
    prev_lhs,   \* the receiver of the call before the last
    prev_op,    \* the call before the last
    pc,         \* "ready", "mod_test" (at mod_by's while condition), "mod_body"
                \* (inside the while body), "panic" (aborted)
    calls,      \* the number of calls made
    build       \* "debug" (overflow checks on) or "release" (off)

vars == <<result, rhs, bits, lhs, op, prev_lhs, prev_op, pc, calls, build>>

-----------------------------------------------------------------------------
(* Bounds *)

\* the longest hexadecimal string handed to BigInt::new, and the longest value
\* mul is called on; mod_by is called on a dividend and a modulus of at most
\* MaxLen + 1 elements together
MaxLen == 2
\* the longest chain of calls of one session
MaxCalls == 2
\* the longest word sequence handed to the shifts
MaxWords == 2
\* mul is compared with repeated addition for multiplicands up to this value
MaxRepeat == 16

\* the characters of the input strings: hex digits and one that is none
HexChars == {"0", "3", "7", "f", "g"}

-----------------------------------------------------------------------------
(* Program constants *)

\* 0x10, the base of add, sub and mul
Base == 16
\* the width of an element, the modulus of the shift amounts
WordBits == 32

-----------------------------------------------------------------------------
(* Helpers *)

Max(m, n) == IF m >= n THEN m ELSE n

RECURSIVE Pow(_, _)
Pow(m, n) == IF n = 0 THEN 1 ELSE m * Pow(m, n - 1)

\* Vec::reverse
reverse(v) == [i \in 1..Len(v) |-> v[Len(v) + 1 - i]]

\* the base-16 number a digit sequence denotes, most significant first
RECURSIVE Value(_)
Value(v) == IF v = <<>> THEN 0 ELSE Value(SubSeq(v, 1, Len(v) - 1)) * Base + v[Len(v)]

\* v zero-extended on the left to n elements (v itself when it is longer)
ZeroExtend(v, n) == [i \in 1..Max(n, Len(v)) |-> IF i <= Max(n, Len(v)) - Len(v) THEN 0 ELSE v[i - (Max(n, Len(v)) - Len(v))]]

InDigitRange(v) == \A i \in 1..Len(v) : v[i] \in 0..(Base - 1)

-----------------------------------------------------------------------------
(* Construction and conversion *)

LowerDigits == <<"0", "1", "2", "3", "4", "5", "6", "7", "8", "9", "a", "b", "c", "d", "e", "f">>
UpperDigits == <<"0", "1", "2", "3", "4", "5", "6", "7", "8", "9", "A", "B", "C", "D", "E", "F">>

\* char::to_digit(16): the digit, or -1 for None
to_digit(ch) ==
    IF \E i \in 1..Base : LowerDigits[i] = ch
    THEN (CHOOSE i \in 1..Base : LowerDigits[i] = ch) - 1
    ELSE IF \E i \in 1..Base : UpperDigits[i] = ch
    THEN (CHOOSE i \in 1..Base : UpperDigits[i] = ch) - 1
    ELSE -1

\* hex.chars().filter_map(|ch| ch.to_digit(16)).collect()
RECURSIVE set_hex(_)
set_hex(hex) ==
    IF hex = <<>> THEN <<>>
    ELSE IF to_digit(Head(hex)) = -1 THEN set_hex(Tail(hex))
    ELSE <<to_digit(Head(hex))>> \o set_hex(Tail(hex))

\* BigInt::empty
empty == <<>>

\* BigInt::new: empty(), then set_hex
new(value) == set_hex(value)

\* format!("{:x}", digit)
RECURSIVE format_x(_)
format_x(digit) ==
    IF digit < Base THEN <<LowerDigits[digit + 1]>>
    ELSE format_x(digit \div Base) \o <<LowerDigits[(digit % Base) + 1]>>

\* self.0.iter().map(|digit| format!("{:x}", digit)).collect()
RECURSIVE get_hex(_)
get_hex(v) == IF v = <<>> THEN <<>> ELSE format_x(Head(v)) \o get_hex(Tail(v))

-----------------------------------------------------------------------------
(* pad *)

\* while pad.len() != n { pad.insert(0, 0) }
RECURSIVE insert_zeros_at_end(_, _)
insert_zeros_at_end(v, n) == IF Len(v) = n THEN v ELSE insert_zeros_at_end(v \o <<0>>, n)
RECURSIVE insert_zeros(_, _)
insert_zeros(v, n) == IF Len(v) = n THEN v ELSE insert_zeros(<<0>> \o v, n)

pad(x, y) ==
    << IF Len(x) < Len(y) THEN insert_zeros(x, Len(y)) ELSE x,
       IF Len(x) > Len(y) THEN insert_zeros(y, Len(x)) ELSE y >>

-----------------------------------------------------------------------------
(* add *)

\* let digit = sum % 0x10
AddDigitUnreduced(sum) == sum
AddDigit(sum) == sum % Base

\* carry = sum / 0x10
AddCarryDropped(sum) == 0
AddCarry(sum) == sum \div Base

\* the for loop of add over the reversed pairs: i runs from the last element to the first
RECURSIVE AddLoop(_, _, _, _)
AddLoop(pad_a, pad_b, i, st) ==
    IF i = 0 THEN st
    ELSE LET sum == pad_a[i] + pad_b[i] + st.carry
         IN  AddLoop(pad_a, pad_b, i - 1,
                     [carry |-> AddCarry(sum),
                      result_digits |-> Append(st.result_digits, AddDigit(sum))])

add(self, int) ==
    LET p == pad(self, int)
        st == AddLoop(p[1], p[2], Len(p[1]), [carry |-> 0, result_digits |-> <<>>])
    IN  reverse(IF st.carry > 0 THEN Append(st.result_digits, st.carry) ELSE st.result_digits)

-----------------------------------------------------------------------------
(* sub *)

\* the minuend digit once a pending borrow is taken from it, and the borrow left:
\* if borrow { if *a == 0 { borrow = true; 0xF } else { borrow = false; a - 1 } } else { *a }
TakeBorrowForgetful(digit, borrow) ==
    IF borrow
    THEN IF digit = 0 THEN [a |-> 15, borrow |-> FALSE] ELSE [a |-> digit - 1, borrow |-> FALSE]
    ELSE [a |-> digit, borrow |-> borrow]
TakeBorrow(digit, borrow) ==
    IF borrow
    THEN IF digit = 0 THEN [a |-> 15, borrow |-> TRUE] ELSE [a |-> digit - 1, borrow |-> FALSE]
    ELSE [a |-> digit, borrow |-> borrow]

\* the for loop of sub over the reversed pairs
RECURSIVE SubLoop(_, _, _, _)
SubLoop(pad_a, pad_b, i, st) ==
    IF i = 0 THEN st
    ELSE LET t == TakeBorrow(pad_a[i], st.borrow)
         IN  SubLoop(pad_a, pad_b, i - 1,
                     IF t.a < pad_b[i]
                     THEN [borrow |-> TRUE,
                           result_digits |-> Append(st.result_digits, Base + t.a - pad_b[i])]
                     ELSE [borrow |-> t.borrow,
                           result_digits |-> Append(st.result_digits, t.a - pad_b[i])])

\* sub: [panic |-> TRUE] for the panic!, else the value returned
sub(self, int) ==
    LET p == pad(self, int)
        st == SubLoop(p[1], p[2], Len(p[1]), [borrow |-> FALSE, result_digits |-> <<>>])
    IN  IF st.borrow
        THEN [panic |-> TRUE, value |-> <<>>]
        ELSE [panic |-> FALSE, value |-> reverse(st.result_digits)]

-----------------------------------------------------------------------------
(* mul *)

\* vec![0; pad_a.len() - i - 1], i the 0-based position of the multiplicand digit
PartialShiftOffByOne(n, i) == [k \in 1..(n - i) |-> 0]
PartialShift(n, i) == [k \in 1..(n - i - 1) |-> 0]

\* the inner for loop of mul over the reversed multiplier
RECURSIVE MulDigitLoop(_, _, _, _)
MulDigitLoop(digit, pad_b, j, st) ==
    IF j = 0 THEN st
    ELSE LET product == digit * pad_b[j] + st.carry
         IN  MulDigitLoop(digit, pad_b, j - 1,
                          [carry |-> product \div Base,
                           temp_result |-> Append(st.temp_result, product % Base)])

\* one pass of the outer loop: the partial product of pad_a[i] (i 0-based)
PartialProduct(pad_a, pad_b, i) ==
    LET st == MulDigitLoop(pad_a[i + 1], pad_b, Len(pad_b),
                           [carry |-> 0, temp_result |-> PartialShift(Len(pad_a), i)])
    IN  reverse(IF st.carry > 0 THEN Append(st.temp_result, st.carry) ELSE st.temp_result)

\* the outer for loop of mul, from the last position to the first
RECURSIVE MulLoop(_, _, _, _)
MulLoop(pad_a, pad_b, i, total) ==
    IF i < 0 THEN total
    ELSE MulLoop(pad_a, pad_b, i - 1, add(total, PartialProduct(pad_a, pad_b, i)))

mul(self, int) ==
    LET p == pad(self, int)
    IN  MulLoop(p[1], p[2], Len(p[1]) - 1, empty)

-----------------------------------------------------------------------------
(* the derived PartialOrd of BigInt(Vec<u32>): lexicographic, a proper prefix is less *)

lt(u, v) ==
    LET n == IF Len(u) < Len(v) THEN Len(u) ELSE Len(v)
        differ == {k \in 1..n : u[k] # v[k]}
    IN  IF differ = {} THEN Len(u) < Len(v)
        ELSE LET k == CHOOSE d \in differ : \A e \in differ : d <= e
             IN  u[k] < v[k]

ge(u, v) == ~lt(u, v)

-----------------------------------------------------------------------------
(* mod_by *)

\* while result >= *modulo || result < zero
while_cond(r, modulo) == ge(r, modulo) \/ lt(r, empty)

\* the body of the while loop
while_body(r, modulo) ==
    IF ge(r, modulo) THEN sub(r, modulo)
    ELSE [panic |-> FALSE, value |-> add(r, modulo)]

-----------------------------------------------------------------------------
(* 32-bit words and the shifts *)

Builds == {"debug", "release"}

BitIndex == 0..(WordBits - 1)

\* the u32 of a number below 2^31
word(n) == {i \in BitIndex : i < WordBits - 1 /\ (n \div Pow(2, i)) % 2 = 1}

top_bit == {WordBits - 1}
all_ones == BitIndex

\* the words of the shifted sequences
Words == {word(0), word(1), word(5), word(15), top_bit, all_ones}

\* the shift amounts tried
ShiftAmounts == {0, 1, 4, 31, 32, 36}

\* u32 << s, u32 >> s and u32 | u32, for a shift distance below 32
shl(w, s) == {i + s : i \in w} \cap BitIndex
shr(w, s) == {i - s : i \in w} \cap BitIndex
bitor(w, v) == w \cup v

\* a shift by a distance of 32 or more overflows: with overflow checks (debug) it
\* panics, without them (release) the distance is taken modulo 32
ShiftOverflows(s) == s >= WordBits
Wrapped(s) == s % WordBits

\* the for loop of shift_l over the reversed elements
RECURSIVE ShiftLLoop(_, _, _, _, _)
ShiftLLoop(v, n_bits, i, st, mode) ==
    IF i = 0 \/ st.panic THEN st
    ELSE LET shifted_digit == bitor(shl(v[i], n_bits), st.carry)
             distance == WordBits - n_bits
         IN  ShiftLLoop(v, n_bits, i - 1,
                        IF ShiftOverflows(distance) /\ mode = "debug"
                        THEN [panic |-> TRUE, carry |-> st.carry, shifted_digits |-> st.shifted_digits]
                        ELSE [panic |-> FALSE,
                              carry |-> shr(v[i], Wrapped(distance)),
                              shifted_digits |-> Append(st.shifted_digits, shifted_digit)],
                        mode)

shift_l(self, n, mode) ==
    LET st == ShiftLLoop(self, n % WordBits, Len(self),
                         [panic |-> FALSE, carry |-> word(0), shifted_digits |-> <<>>], mode)
    IN  IF st.panic THEN [panic |-> TRUE, value |-> <<>>]
        ELSE [panic |-> FALSE,
              value |-> reverse(IF st.carry # word(0)
                                THEN Append(st.shifted_digits, st.carry)
                                ELSE st.shifted_digits)]

shift_r(self, n, mode) ==
    LET shift_amount == n % WordBits
        carry_bits == WordBits - shift_amount
    IN  IF Len(self) >= 2 /\ ShiftOverflows(carry_bits) /\ mode = "debug"
        THEN [panic |-> TRUE, value |-> <<>>]       \* vec[i-1] << carry_bits
        ELSE IF Len(self) = 0
        THEN [panic |-> TRUE, value |-> <<>>]       \* vec[0]: index out of bounds
        ELSE [panic |-> FALSE,
              value |-> [i \in 1..Len(self) |->
                           IF i = 1 THEN shr(self[1], shift_amount)
                           ELSE bitor(shr(self[i], shift_amount),
                                      shl(self[i - 1], Wrapped(carry_bits)))]]

-----------------------------------------------------------------------------
(* The session *)

\* every string of HexChars of at most n characters
RECURSIVE StringsUpTo(_)
StringsUpTo(n) ==
    IF n = 0 THEN {<<>>}
    ELSE StringsUpTo(n - 1) \cup {Append(s, ch) : s \in StringsUpTo(n - 1), ch \in HexChars}

RECURSIVE WordSeqsUpTo(_)
WordSeqsUpTo(n) ==
    IF n = 0 THEN {<<>>}
    ELSE WordSeqsUpTo(n - 1) \cup {Append(s, w) : s \in WordSeqsUpTo(n - 1), w \in Words}

\* two values parsed from hexadecimal strings; add, sub, mul and mod_by shift
\* nothing and overflow nothing, so one build stands for both
Init ==
    /\ \E s \in StringsUpTo(MaxLen) : result = new(s)
    /\ \E s \in StringsUpTo(MaxLen) : rhs = new(s)
    /\ bits = 0
    /\ lhs = empty /\ prev_lhs = empty
    /\ op = "new" /\ prev_op = "new"
    /\ pc = "ready"
    /\ calls = 0
    /\ build = "debug"

\* a sequence of words and a shift amount; words above 15 are what inv and the
\* shifts themselves leave in a BigInt (inv of "0" is one word of all ones)
InitShift ==
    /\ result \in WordSeqsUpTo(MaxWords)
    /\ rhs = empty
    /\ bits \in ShiftAmounts
    /\ lhs = empty /\ prev_lhs = empty
    /\ op = "new" /\ prev_op = "new"
    /\ pc = "ready"
    /\ calls = 0
    /\ build \in Builds

CanCall == pc = "ready" /\ calls < MaxCalls

\* result.<name>(..) is called
Called(name) ==
    /\ lhs' = result
    /\ op' = name
    /\ prev_lhs' = lhs
    /\ prev_op' = op
    /\ calls' = calls + 1

\* the call returns out.value, or panics
Returns(out) ==
    IF out.panic THEN pc' = "panic" /\ result' = result
    ELSE pc' = "ready" /\ result' = out.value

Add ==
    /\ CanCall
    /\ Called("add")
    /\ result' = add(result, rhs)
    /\ pc' = "ready"
    /\ UNCHANGED <<rhs, bits, build>>

Sub ==
    /\ CanCall
    /\ Called("sub")
    /\ Returns(sub(result, rhs))
    /\ UNCHANGED <<rhs, bits, build>>

Mul ==
    /\ CanCall
    /\ Len(result) <= MaxLen
    /\ Called("mul")
    /\ result' = mul(result, rhs)
    /\ pc' = "ready"
    /\ UNCHANGED <<rhs, bits, build>>

\* mod_by up to its while loop: let mut result = self.sub(modulo)
ModByStart ==
    /\ CanCall
    /\ Len(result) + Len(rhs) <= MaxLen + 1
    /\ Called("mod_by")
    /\ LET first == sub(result, rhs)
       IN  IF first.panic THEN pc' = "panic" /\ result' = result
           ELSE pc' = "mod_test" /\ result' = first.value
    /\ UNCHANGED <<rhs, bits, build>>

\* the while condition holds: the body is entered
ModByEnter ==
    /\ pc = "mod_test"
    /\ while_cond(result, rhs)
    /\ pc' = "mod_body"
    /\ UNCHANGED <<result, rhs, bits, lhs, op, prev_lhs, prev_op, calls, build>>

\* the body of the while loop
ModByIterate ==
    /\ pc = "mod_body"
    /\ LET next == while_body(result, rhs)
       IN  IF next.panic THEN pc' = "panic" /\ result' = result
           ELSE pc' = "mod_test" /\ result' = next.value
    /\ UNCHANGED <<rhs, bits, lhs, op, prev_lhs, prev_op, calls, build>>

\* the while condition fails: mod_by returns result
ModByReturn ==
    /\ pc = "mod_test"
    /\ ~while_cond(result, rhs)
    /\ pc' = "ready"
    /\ UNCHANGED <<result, rhs, bits, lhs, op, prev_lhs, prev_op, calls, build>>

ShiftL ==
    /\ CanCall
    /\ Called("shift_l")
    /\ Returns(shift_l(result, bits, build))
    /\ UNCHANGED <<rhs, bits, build>>

ShiftR ==
    /\ CanCall
    /\ Called("shift_r")
    /\ Returns(shift_r(result, bits, build))
    /\ UNCHANGED <<rhs, bits, build>>

Next == Add \/ Sub \/ Mul \/ ModByStart \/ ModByEnter \/ ModByIterate \/ ModByReturn

NextShift == ShiftL \/ ShiftR

Spec == Init /\ [][Next]_vars

\* the loop of mod_by keeps running while it can: a sequential program does not pause
FairSpec ==
    Init /\ [][Next]_vars
         /\ WF_vars(ModByEnter) /\ WF_vars(ModByIterate) /\ WF_vars(ModByReturn)

ShiftSpec == InitShift /\ [][NextShift]_vars

-----------------------------------------------------------------------------
(* Claims: add, sub, mul *)

InModBy == pc \in {"mod_test", "mod_body"}

Digits(v) == InDigitRange(v)

\* C1: add(a, b) of digit sequences is a digit sequence whose value is
\* value(a) + value(b) and whose length is max(len(a), len(b)), plus one exactly
\* when the sum does not fit max(len(a), len(b)) digits (a carry leaves the top).
AddCorrect ==
    (op = "add" /\ Digits(lhs) /\ Digits(rhs)) =>
        /\ pc = "ready"
        /\ Digits(result)
        /\ Value(result) = Value(lhs) + Value(rhs)
        /\ Len(result) = Max(Len(lhs), Len(rhs))
                         + (IF Value(lhs) + Value(rhs) >= Pow(Base, Max(Len(lhs), Len(rhs)))
                            THEN 1 ELSE 0)

\* an addition of operands of different lengths that appended a carry element
AddCarryReached ==
    /\ op = "add" /\ pc = "ready"
    /\ Len(lhs) # Len(rhs) /\ Len(lhs) > 0 /\ Len(rhs) > 0
    /\ Len(result) = Max(Len(lhs), Len(rhs)) + 1

\* C2: sub(a, b) of digit sequences panics exactly when value(a) < value(b), and
\* otherwise returns max(len(a), len(b)) digits of value value(a) - value(b).
SubCorrect ==
    (op = "sub" /\ Digits(lhs) /\ Digits(rhs)) =>
        /\ (pc = "panic") <=> (Value(lhs) < Value(rhs))
        /\ pc = "ready" =>
              /\ Digits(result)
              /\ Len(result) = Max(Len(lhs), Len(rhs))
              /\ Value(result) = Value(lhs) - Value(rhs)

\* a subtraction that panicked although the minuend is the longer sequence
SubPanicReached ==
    /\ op = "sub" /\ pc = "panic"
    /\ Len(lhs) > Len(rhs) /\ Len(rhs) > 0

\* a subtraction that returned after borrowing across a zero digit
SubBorrowReached ==
    /\ op = "sub" /\ pc = "ready"
    /\ Len(lhs) >= 3 /\ lhs[Len(lhs) - 1] = 0 /\ lhs[Len(lhs)] < rhs[Len(rhs)]

\* v added to total n times (each sum is computed before the next is started)
RECURSIVE AddTimes(_, _, _)
AddTimes(total, v, n) ==
    IF n = 0 THEN total
    ELSE LET t == add(total, v)
         IN  IF Len(t) >= 0 THEN AddTimes(t, v, n - 1) ELSE t

\* v added to a zero total n times
RepeatedAdd(v, n) == AddTimes(empty, v, n)

\* C6: mul(a, b) of digit sequences is a digit sequence of value
\* value(a) * value(b), the value of b added to a zero total value(a) times;
\* mul("3", "7") renders as "15".
MulCorrect ==
    (op = "mul" /\ Digits(lhs) /\ Digits(rhs)) =>
        /\ pc = "ready"
        /\ Digits(result)
        /\ Value(result) = Value(lhs) * Value(rhs)
        /\ Value(lhs) <= MaxRepeat =>
              Value(result) = Value(RepeatedAdd(rhs, Value(lhs)))
        /\ (lhs = new(<<"3">>) /\ rhs = new(<<"7">>)) => get_hex(result) = <<"1", "5">>

\* mul("3", "7") was computed
MulThreeSevenReached ==
    /\ op = "mul" /\ pc = "ready"
    /\ get_hex(lhs) = <<"3">> /\ get_hex(rhs) = <<"7">>
    /\ get_hex(result) = <<"1", "5">>

\* C8: every value of a session that starts from parsed strings and applies add,
\* sub, mul and mod_by has all its elements in 0..15, inside mod_by's loop too.
DigitsInRange ==
    /\ Digits(result)
    /\ Digits(rhs)
    /\ Digits(lhs)
    /\ Digits(prev_lhs)

\* a sum multiplied, the topmost partial product appending a carry element
ChainedMulCarryReached ==
    /\ prev_op = "add" /\ op = "mul" /\ pc = "ready"
    /\ Len(lhs) > 0 /\ Len(rhs) > 0
    /\ Len(result) = 2 * Max(Len(lhs), Len(rhs))

\* C5 as stated: sub(add(a, b), b) equals a element by element.
AddSubRoundTrip ==
    (prev_op = "add" /\ op = "sub" /\ pc = "ready") => result = prev_lhs

\* C5, amended: sub(add(a, b), b) does not panic and has the value of a; it is a
\* zero-extended on the left to the length of add(a, b), so it equals a element
\* by element exactly when add(a, b) is no longer than a.
AddSubRoundTripPadded ==
    (prev_op = "add" /\ op = "sub") =>
        /\ pc = "ready"
        /\ Value(result) = Value(prev_lhs)
        /\ result = ZeroExtend(prev_lhs, Len(lhs))
        /\ (result = prev_lhs) <=> (Len(lhs) = Len(prev_lhs))

\* a sum with a carry element, of operands of different lengths, subtracted again
AddSubCarryReached ==
    /\ prev_op = "add" /\ op = "sub" /\ pc = "ready"
    /\ Len(prev_lhs) > 0 /\ Len(prev_lhs) # Len(rhs)
    /\ Len(lhs) = Max(Len(prev_lhs), Len(rhs)) + 1

-----------------------------------------------------------------------------
(* Claims: mod_by *)

\* C3: for a modulus of value > 0, mod_by(a, m) returns a value equal to
\* value(a) mod value(m).
ModByCorrect ==
    (op = "mod_by" /\ ~InModBy /\ Value(rhs) > 0) =>
        /\ pc = "ready"
        /\ Value(result) = Value(lhs) % Value(rhs)

\* C3 on the inputs where the code does compute the remainder: the dividend is
\* not smaller than the modulus and not longer than it
ModByCorrectWhenAligned ==
    (op = "mod_by" /\ ~InModBy /\ Value(rhs) > 0
        /\ Value(lhs) >= Value(rhs) /\ Len(lhs) <= Len(rhs)) =>
        /\ pc = "ready"
        /\ Value(result) = Value(lhs) % Value(rhs)

\* C4: no sub called by mod_by panics.
ModByNeverPanics == ~(op = "mod_by" /\ pc = "panic")

\* C4 for the subtractions inside the loop: only the first one panics
ModByLoopNeverPanics ==
    [][InModBy => pc' # "panic"]_vars

\* C9: the loop of mod_by is left.
ModByTerminates == InModBy ~> ~InModBy

\* the loop of mod_by is left whenever the modulus has a value > 0
ModByTerminatesNonZero == (InModBy /\ Value(rhs) > 0) ~> ~InModBy

-----------------------------------------------------------------------------
(* Claims: shifts *)

\* C7: shift_r(shift_l(a, k), k) equals a whenever shift_l(a, k) is as long as a.
ShiftRoundTrip ==
    (prev_op = "shift_l" /\ op = "shift_r" /\ Len(lhs) = Len(prev_lhs)) =>
        /\ pc = "ready"
        /\ result = prev_lhs

\* C7 away from the empty value and the multiples of 32
ShiftRoundTripProper ==
    (prev_op = "shift_l" /\ op = "shift_r" /\ Len(lhs) = Len(prev_lhs)
        /\ Len(prev_lhs) > 0 /\ bits % WordBits # 0) =>
        /\ pc = "ready"
        /\ result = prev_lhs

\* C10: a shift by a multiple of 32 of a sequence that has words returns its
\* operand and does not panic.
ShiftByWordMultipleIsNoOp ==
    (op \in {"shift_l", "shift_r"} /\ bits % WordBits = 0 /\ Len(lhs) > 0) =>
        /\ pc = "ready"
        /\ result = lhs

====
